---- MODULE Spec2Model ----
(***************************************************************************)
(* Model of stosh (src/stosh.py): the CompiledModel session that owns one  *)
(* native model handle, and the compile() function that builds or reuses   *)
(* the shared library the session is constructed from.                     *)
(*                                                                         *)
(* Python values are modelled as follows.                                  *)
(*   - None is the number 0 where the other values are positive numbers    *)
(*     (the native handle), and the record NoLib / NoRet elsewhere.        *)
(*   - A str is a sequence of code points; bytes are a sequence of 0..255. *)
(*   - A native handle is the identity of one allocation made by           *)
(*     stosh_load_model: the n-th successful load returns handle n.        *)
(*   - A raised exception is a record [kind |-> "raise", exc, prefix,      *)
(*     text]: the message is the literal prefix followed by text.          *)
(***************************************************************************)
EXTENDS Integers, Sequences, FiniteSets, TLC

VARIABLES
    lib,          \* CompiledModel._lib: the loaded library, or NoLib
    handle,       \* CompiledModel._model_handle (None is 0)
    finalized,    \* the object has been destroyed (its __del__ has run)
    nextHandle,   \* native side: the next allocation stosh_load_model makes
    freeCount,    \* native side: how often each handle reached stosh_free_model
    last,         \* the last session operation: name, handle before, native calls, outcome
    prevOp,       \* the session operation before the last one, and whether it returned
    world,        \* what compile() reads: environment, working directory, files
    cres,         \* the last compile() call: arguments, build runs, library loads, outcome
    peer          \* a second CompiledModel object of the same library, while the
                  \* operations act on the first: its own fields

sessionVars == <<lib, handle, finalized, nextHandle, freeCount, last, prevOp>>
compileVars == <<world, cres>>
otherVars == <<world, cres, peer>>
vars == <<lib, handle, finalized, nextHandle, freeCount, last, prevOp, world, cres, peer>>

----------------------------------------------------------------------------
(* Bounds of the model *)

\* number of allocations the native side makes in one behaviour
MaxHandles == 3
\* the latest modification time of a file that exists before compile() runs
MaxTime == 3
\* length of the texts the native side writes into an out-buffer
MaxText == 1
\* number of explicit m.__del__() calls followed on one held handle
MaxDelCalls == 2

----------------------------------------------------------------------------
(* Python and ctypes primitives *)

None == 0

\* ctypes.create_string_buffer(1024), stosh.py:97,130,131
BufCap == 1024

\* ctypes.c_uint is 32 bits wide. TLC's integers are 32 bits wide too, so a
\* Python int n is held as its two base-65536 digits: n = hi * 65536 + lo with
\* lo in 0..65535 (hi is negative for a negative n, 65536 or more for n >= 2^32)
HalfWord == 65536

PyInt(hi, lo) == [hi |-> hi, lo |-> lo]

\* code points of the texts of the model: 'r' and the two-byte U+00E9
Chars == {114, 233}

Texts == UNION {[1..n -> Chars] : n \in 0..MaxText}

RECURSIVE Utf8Encode(_)
\* str.encode('utf-8') for code points below 2048
Utf8Encode(s) ==
    IF s = <<>> THEN <<>>
    ELSE LET c == Head(s) IN
         (IF c < 128 THEN <<c>> ELSE <<192 + (c \div 64), 128 + (c % 64)>>)
            \o Utf8Encode(Tail(s))

RECURSIVE Utf8Decode(_)
\* bytes.decode('utf-8') for well-formed one- and two-byte sequences
Utf8Decode(b) ==
    IF b = <<>> THEN <<>>
    ELSE IF Head(b) < 128 THEN <<Head(b)>> \o Utf8Decode(Tail(b))
    ELSE <<(Head(b) - 192) * 64 + (Head(Tail(b)) - 128)>> \o Utf8Decode(Tail(Tail(b)))

\* a fresh ctypes string buffer: every byte is zero
CreateStringBuffer(cap) == [cap |-> cap, bytes |-> <<>>]

\* what the native side does with (char* buf, size_t len): it writes the text's
\* bytes and a terminating NUL, never beyond the capacity
NativeWrite(buf, text) ==
    LET b == Utf8Encode(text)
        n == IF Len(b) < buf.cap THEN Len(b) ELSE buf.cap - 1
    IN  [buf EXCEPT !.bytes = SubSeq(b, 1, n) \o <<0>>]

RECURSIVE UpToNul(_)
UpToNul(b) == IF b = <<>> \/ Head(b) = 0 THEN <<>> ELSE <<Head(b)>> \o UpToNul(Tail(b))

\* ctypes buffer .value: the bytes before the first NUL
BufferValue(buf) == UpToNul(buf.bytes)

\* faulty variant: the seed is handed on as it is
CUIntUnreduced(seed) == seed

\* ctypes.c_uint(seed): the value modulo 2^32, with no range check
CUInt(seed) == PyInt(seed.hi % HalfWord, seed.lo)

\* a normal return: shape names the Python value ("None", "str", or
\* "dict:output_dir" for {'output_dir': text}) and text is its string content
Return(shape, text) ==
    [kind |-> "return", exc |-> "", prefix |-> "", shape |-> shape, text |-> text]

\* raise StoshError(prefix + text)
StoshError(prefix, text) ==
    [kind |-> "raise", exc |-> "StoshError", prefix |-> prefix, shape |-> "", text |-> text]

NoRet == [kind |-> "none", exc |-> "", prefix |-> "", shape |-> "", text |-> <<>>]

----------------------------------------------------------------------------
(* Parameter marshalling, CompiledModel._kwargs_to_c_arrays *)

BoolV(b) == [t |-> "bool", b |-> b, n |-> 0, s |-> <<>>]
IntV(n) == [t |-> "int", b |-> FALSE, n |-> n, s |-> <<>>]
StrV(s) == [t |-> "str", b |-> FALSE, n |-> 0, s |-> s]

RECURSIVE NatToStr(_)
NatToStr(n) == IF n < 10 THEN <<48 + n>> ELSE NatToStr(n \div 10) \o <<48 + (n % 10)>>

\* str(n) for an int
IntToStr(n) == IF n < 0 THEN <<45>> \o NatToStr(0 - n) ELSE NatToStr(n)

\* faulty variant: str(value) for every value, str(True) being "True"
ValueToStringByStr(value) ==
    IF value.t = "bool"
    THEN (IF value.b THEN <<84, 114, 117, 101>> ELSE <<70, 97, 108, 115, 101>>)
    ELSE IF value.t = "int" THEN IntToStr(value.n)
    ELSE value.s

\* CompiledModel._value_to_string
ValueToString(value) ==
    IF value.t = "bool"
    THEN (IF value.b THEN <<116, 114, 117, 101>> ELSE <<102, 97, 108, 115, 101>>)
    ELSE IF value.t = "int" THEN IntToStr(value.n)
    ELSE value.s

\* a C array of char*, or the null pointer ctypes passes for None
NullArray == [null |-> TRUE, items |-> <<>>]
CArray(items) == [null |-> FALSE, items |-> items]

\* CompiledModel._kwargs_to_c_arrays: kwargs is the dict as its sequence of
\* (key, value) items in insertion order
KwargsToCArrays(kwargs) ==
    IF kwargs = <<>>
    THEN [keys |-> NullArray, values |-> NullArray]
    ELSE LET string_kwargs == [i \in 1..Len(kwargs) |->
                                  [k |-> kwargs[i].k, v |-> ValueToString(kwargs[i].v)]]
         IN  [keys |-> CArray([i \in 1..Len(string_kwargs) |-> Utf8Encode(string_kwargs[i].k)]),
              values |-> CArray([i \in 1..Len(string_kwargs) |-> Utf8Encode(string_kwargs[i].v)])]

----------------------------------------------------------------------------
(* The native side, seen through the C API of the loaded library *)

NoArgs == [data |-> <<>>, seed |-> PyInt(0, 0), keys |-> NullArray, values |-> NullArray, count |-> 0]

\* one call across the boundary: the entry point, the handle passed (or, for
\* stosh_load_model, returned), the integer status returned, the arguments, and
\* the text the native side put into the error buffer
Call(fn, h, status, args, said) ==
    [fn |-> fn, h |-> h, status |-> status, args |-> args, said |-> said]

FreeCall(h) == Call("stosh_free_model", h, 0, NoArgs, <<>>)

\* the native side's record of a release
Freed(fc, h) == [fc EXCEPT ![h] = @ + 1]

\* statuses stosh_run_samplers returns
Statuses == {0, 1, -1}

\* the argument sets of the session operations
NoData == [t |-> "none", s |-> <<>>]
PathData(s) == [t |-> "str", s |-> s]
DictData == [t |-> "dict", s |-> <<>>]
DataArgs == {NoData, PathData(<<100>>), DictData}
\* the seeds 1, 2^32 + 1 and -1
Seeds == {PyInt(0, 1), PyInt(HalfWord, 1), PyInt(-1, HalfWord - 1)}
KwargsArgs ==
    { <<>>,
      <<[k |-> <<119>>, v |-> IntV(10)]>>,
      <<[k |-> <<115>>, v |-> BoolV(TRUE)], [k |-> <<105>>, v |-> StrV(<<233>>)]>>,
      <<[k |-> <<97>>, v |-> BoolV(FALSE)], [k |-> <<116>>, v |-> IntV(-5)],
        [k |-> <<122>>, v |-> IntV(0)]>> }

\* the arguments a session operation was called with
NoInput == [data |-> NoData, seed |-> PyInt(0, 0), kwargs |-> <<>>]
LoadInput(data, seed) == [NoInput EXCEPT !.data = data, !.seed = seed]
RunInput(kwargs) == [NoInput EXCEPT !.kwargs = kwargs]

\* one session operation as recorded: its name and arguments, the handle the
\* session held before it, the native calls it made and its outcome
OpIn(name, input, pre, trace, ret) ==
    [op |-> name, input |-> input, pre |-> pre, trace |-> trace, ret |-> ret]
Op(name, pre, trace, ret) == OpIn(name, NoInput, pre, trace, ret)

\* what is kept of an operation once the next one has run
Prev == [op |-> last.op, returned |-> last.ret.kind = "return",
         prefix |-> last.ret.prefix, pre |-> last.pre]

\* a file path: the directory's components, the file's stem and its suffix
Path(dir, stem, suffix) == [dir |-> dir, stem |-> stem, suffix |-> suffix]
NoPath == Path(<<>>, "", "")

\* the library ctypes.CDLL loaded, with whether the optional entry point
\* stosh_get_model_name is in it
Library(so_path, hasName) == [so_path |-> so_path, hasName |-> hasName]
NoLib == Library(NoPath, FALSE)

\* the fields of a CompiledModel object that is not the one operated on
Peer(id, l, h, f) == [id |-> id, lib |-> l, handle |-> h, finalized |-> f]
NoPeer == Peer(0, NoLib, None, FALSE)

----------------------------------------------------------------------------
(* CompiledModel: the session operations *)

\* faulty variant: the held handle is not released before the new load
ReleaseSkipped(fc, h) == [trace |-> <<>>, fc |-> fc]

\* load_data, lines 84-87: free the existing model before loading new data
\* (the native calls made and the native side's release counts after them)
ReleaseHeld(fc, h) ==
    IF h # None THEN [trace |-> <<FreeCall(h)>>, fc |-> Freed(fc, h)]
    ELSE [trace |-> <<>>, fc |-> fc]

\* faulty variant: str(data) also for None, so that "None" is passed as a path
LoadCallNoneAsText(result, data, seed, said) ==
    LET data_str == IF data.t = "none" THEN <<78, 111, 110, 101>> ELSE data.s
    IN  Call("stosh_load_model", result, 0,
             [NoArgs EXCEPT !.data = Utf8Encode(data_str), !.seed = CUInt(seed)], said)

\* load_data, lines 94-105: the call of stosh_load_model
LoadCall(result, data, seed, said) ==
    LET data_str == IF data.t = "none" THEN <<>> ELSE data.s
    IN  Call("stosh_load_model", result, 0,
             [NoArgs EXCEPT !.data = Utf8Encode(data_str), !.seed = CUInt(seed)], said)

\* faulty variant: the handle is stored only when the load succeeds
HandleKeptOnFailure(held, result) == IF result = None THEN held ELSE result

\* load_data, line 100: the result is assigned to self._model_handle
\* (ctypes turns a null c_void_p into None)
HandleAfterLoad(held, result) == result

\* faulty variant: the error buffer is not put into the message
LoadResultNoText(result, error_msg) ==
    IF result = None THEN StoshError("Failed to load data: ", <<>>)
    ELSE Return("None", <<>>)

\* load_data, lines 107-108
LoadResult(result, error_msg) ==
    IF result = None
    THEN StoshError("Failed to load data: ", Utf8Decode(BufferValue(error_msg)))
    ELSE Return("None", <<>>)

\* CompiledModel.load_data(data, seed)
LoadData(data, seed) ==
    /\ ~finalized
    /\ lib # NoLib
    /\ LET held == handle IN
       IF data.t = "dict"
       THEN /\ handle' = None
            /\ freeCount' = ReleaseHeld(freeCount, held).fc
            /\ last' = OpIn("load_data", LoadInput(data, seed), held, ReleaseHeld(freeCount, held).trace,
                          StoshError("Dictionary data not yet supported - please provide JSON file path", <<>>))
            /\ UNCHANGED nextHandle
       ELSE \E ok \in BOOLEAN, msg \in Texts :
            /\ ok => (msg = <<>> /\ nextHandle <= MaxHandles)
            /\ LET buf == CreateStringBuffer(BufCap)
                   error_msg == IF ok THEN buf ELSE NativeWrite(buf, msg)
                   result == IF ok THEN nextHandle ELSE None
               IN  /\ handle' = HandleAfterLoad(held, result)
                   /\ nextHandle' = IF ok THEN nextHandle + 1 ELSE nextHandle
                   /\ freeCount' = ReleaseHeld(freeCount, held).fc
                   /\ last' = OpIn("load_data", LoadInput(data, seed), held,
                                 ReleaseHeld(freeCount, held).trace
                                    \o <<LoadCall(result, data, seed, msg)>>,
                                 LoadResult(result, error_msg))
    /\ prevOp' = Prev
    /\ UNCHANGED otherVars
    /\ UNCHANGED <<lib, finalized>>

\* hmc_nuts, lines 134-143: the call of stosh_run_samplers
RunCall(h, status, kwargs, said) ==
    LET arrays == KwargsToCArrays(kwargs)
    IN  Call("stosh_run_samplers", h, status,
             [NoArgs EXCEPT !.keys = arrays.keys, !.values = arrays.values,
                            !.count = Len(kwargs)], said)

\* hmc_nuts, lines 145-148
RunResult(result, output_dir, error_msg) ==
    IF result # 0
    THEN StoshError("Sampling failed: ", Utf8Decode(BufferValue(error_msg)))
    ELSE Return("dict:output_dir", Utf8Decode(BufferValue(output_dir)))

\* hmc_nuts, lines 123-124
NoDataLoaded == StoshError("No data loaded. Call load_data() first.", <<>>)

\* faulty variant: a failed run releases the handle
HmcNutsReleases(kwargs) ==
    /\ ~finalized
    /\ lib # NoLib
    /\ IF handle = None
       THEN /\ last' = OpIn("hmc_nuts", RunInput(kwargs), handle, <<>>, NoDataLoaded)
            /\ UNCHANGED <<handle, freeCount>>
       ELSE \E result \in Statuses, text \in Texts :
            LET buf == CreateStringBuffer(BufCap)
                output_dir == IF result = 0 THEN NativeWrite(buf, text) ELSE buf
                error_msg == IF result = 0 THEN buf ELSE NativeWrite(buf, text)
                run == RunCall(handle, result, kwargs, IF result = 0 THEN <<>> ELSE text)
            IN  /\ last' = OpIn("hmc_nuts", RunInput(kwargs), handle,
                              IF result = 0 THEN <<run>> ELSE <<run, FreeCall(handle)>>,
                              RunResult(result, output_dir, error_msg))
                /\ handle' = IF result = 0 THEN handle ELSE None
                /\ freeCount' = IF result = 0 THEN freeCount ELSE Freed(freeCount, handle)
    /\ prevOp' = Prev
    /\ UNCHANGED otherVars
    /\ UNCHANGED <<lib, finalized, nextHandle>>

\* faulty variant: the handle is not tested before the run
HmcNutsUnchecked(kwargs) ==
    /\ ~finalized
    /\ lib # NoLib
    /\ \E result \in Statuses, text \in Texts :
            LET buf == CreateStringBuffer(BufCap)
                output_dir == IF result = 0 THEN NativeWrite(buf, text) ELSE buf
                error_msg == IF result = 0 THEN buf ELSE NativeWrite(buf, text)
            IN  last' = OpIn("hmc_nuts", RunInput(kwargs), handle,
                           <<RunCall(handle, result, kwargs,
                                     IF result = 0 THEN <<>> ELSE text)>>,
                           RunResult(result, output_dir, error_msg))
    /\ prevOp' = Prev
    /\ UNCHANGED otherVars
    /\ UNCHANGED <<lib, handle, finalized, nextHandle, freeCount>>

\* CompiledModel.hmc_nuts(**kwargs)
HmcNuts(kwargs) ==
    /\ ~finalized
    /\ lib # NoLib
    /\ IF handle = None
       THEN last' = OpIn("hmc_nuts", RunInput(kwargs), handle, <<>>, NoDataLoaded)
       ELSE \E result \in Statuses, text \in Texts :
            LET buf == CreateStringBuffer(BufCap)
                output_dir == IF result = 0 THEN NativeWrite(buf, text) ELSE buf
                error_msg == IF result = 0 THEN buf ELSE NativeWrite(buf, text)
            IN  last' = OpIn("hmc_nuts", RunInput(kwargs), handle,
                           <<RunCall(handle, result, kwargs,
                                     IF result = 0 THEN <<>> ELSE text)>>,
                           RunResult(result, output_dir, error_msg))
    /\ prevOp' = Prev
    /\ UNCHANGED otherVars
    /\ UNCHANGED <<lib, handle, finalized, nextHandle, freeCount>>

\* faulty variant: the entry point is called whether or not a handle is held
NameUnguarded ==
    /\ ~finalized
    /\ lib # NoLib
    /\ IF lib.hasName
       THEN \E isNull \in BOOLEAN, text \in Texts :
            /\ isNull => text = <<>>
            /\ last' = Op("name", handle,
                          <<Call("stosh_get_model_name", handle, 0, NoArgs, <<>>)>>,
                          IF isNull THEN Return("None", <<>>)
                          ELSE Return("str", Utf8Decode(Utf8Encode(text))))
       ELSE last' = Op("name", handle, <<>>, Return("None", <<>>))
    /\ prevOp' = Prev
    /\ UNCHANGED otherVars
    /\ UNCHANGED <<lib, handle, finalized, nextHandle, freeCount>>

\* CompiledModel.name
Name ==
    /\ ~finalized
    /\ lib # NoLib
    /\ IF handle # None /\ lib.hasName
       THEN \E isNull \in BOOLEAN, text \in Texts :
            /\ isNull => text = <<>>
            /\ last' = Op("name", handle,
                          <<Call("stosh_get_model_name", handle, 0, NoArgs, <<>>)>>,
                          IF isNull THEN Return("None", <<>>)
                          ELSE Return("str", Utf8Decode(Utf8Encode(text))))
       ELSE last' = Op("name", handle, <<>>, Return("None", <<>>))
    /\ prevOp' = Prev
    /\ UNCHANGED otherVars
    /\ UNCHANGED <<lib, handle, finalized, nextHandle, freeCount>>

\* CompiledModel.__enter__
Enter ==
    /\ ~finalized
    /\ lib # NoLib
    /\ last' = Op("__enter__", handle, <<>>, Return("self", <<>>))
    /\ prevOp' = Prev
    /\ UNCHANGED otherVars
    /\ UNCHANGED <<lib, handle, finalized, nextHandle, freeCount>>

\* faulty variant: __exit__ frees the handle and keeps it stored
ExitKeepsHandle ==
    /\ ~finalized
    /\ lib # NoLib
    /\ IF handle # None
       THEN /\ freeCount' = Freed(freeCount, handle)
            /\ last' = Op("__exit__", handle, <<FreeCall(handle)>>, Return("None", <<>>))
       ELSE /\ last' = Op("__exit__", handle, <<>>, Return("None", <<>>))
            /\ UNCHANGED freeCount
    /\ prevOp' = Prev
    /\ UNCHANGED otherVars
    /\ UNCHANGED <<lib, handle, finalized, nextHandle>>

\* faulty variant: __exit__ forgets the handle without freeing it
ExitLeaks ==
    /\ ~finalized
    /\ lib # NoLib
    /\ handle' = None
    /\ last' = Op("__exit__", handle, <<>>, Return("None", <<>>))
    /\ prevOp' = Prev
    /\ UNCHANGED otherVars
    /\ UNCHANGED <<lib, finalized, nextHandle, freeCount>>

\* CompiledModel.__exit__
Exit ==
    /\ ~finalized
    /\ lib # NoLib
    /\ IF handle # None
       THEN /\ freeCount' = Freed(freeCount, handle)
            /\ handle' = None
            /\ last' = Op("__exit__", handle, <<FreeCall(handle)>>, Return("None", <<>>))
       ELSE /\ last' = Op("__exit__", handle, <<>>, Return("None", <<>>))
            /\ UNCHANGED <<handle, freeCount>>
    /\ prevOp' = Prev
    /\ UNCHANGED otherVars
    /\ UNCHANGED <<lib, finalized, nextHandle>>

\* CompiledModel.__del__, run by the interpreter when the object is destroyed:
\* once, and no method of the object is called after it
Del ==
    /\ ~finalized
    /\ lib # NoLib
    /\ finalized' = TRUE
    /\ IF handle # None
       THEN /\ freeCount' = Freed(freeCount, handle)
            /\ last' = Op("__del__", handle, <<FreeCall(handle)>>, Return("None", <<>>))
       ELSE /\ last' = Op("__del__", handle, <<>>, Return("None", <<>>))
            /\ UNCHANGED freeCount
    /\ prevOp' = Prev
    /\ UNCHANGED otherVars
    /\ UNCHANGED <<lib, handle, nextHandle>>

----------------------------------------------------------------------------
(* compile(): paths, the file system and the build process *)

RECURSIVE NormalizeOnto(_, _)
\* Path.resolve() on the components of an absolute path: ".." cancels the
\* component before it
NormalizeOnto(acc, rest) ==
    IF rest = <<>> THEN acc
    ELSE IF Head(rest) = ".."
         THEN NormalizeOnto(IF acc = <<>> THEN acc ELSE SubSeq(acc, 1, Len(acc) - 1), Tail(rest))
         ELSE NormalizeOnto(Append(acc, Head(rest)), Tail(rest))

\* the stan_file argument: an absolute path, or one relative to the working directory
StanArg(abs, dir, stem, suffix) == [abs |-> abs, dir |-> dir, stem |-> stem, suffix |-> suffix]

\* Path(stan_file).resolve(), line 214
Resolve(cwd, arg) ==
    Path(NormalizeOnto(<<>>, IF arg.abs THEN arg.dir ELSE cwd \o arg.dir), arg.stem, arg.suffix)

\* whether Path.relative_to(base) succeeds for a file in directory dir
IsUnder(dir, base) == Len(base) <= Len(dir) /\ SubSeq(dir, 1, Len(base)) = base

\* the directory part of Path.relative_to(base)
RelativeTo(dir, base) == SubSeq(dir, Len(base) + 1, Len(dir))

\* Path.exists()
Exists(w, p) == p \in DOMAIN w.mtime /\ w.mtime[p] > 0

\* Path(__file__).parent.resolve(), line 227
PythonDir == <<"r", "python">>

\* faulty variant: when STAN_ROOT holds no makefile the default location is used
MakefileDirFallsBack(w) ==
    IF w.stan_root.set /\ NormalizeOnto(<<>>, w.stan_root.dir) \in w.makefiles
    THEN NormalizeOnto(<<>>, w.stan_root.dir)
    ELSE SubSeq(PythonDir, 1, Len(PythonDir) - 1)

\* lines 224-228: STAN_ROOT when it is set, else the parent of the package
MakefileDir(w) ==
    IF w.stan_root.set THEN NormalizeOnto(<<>>, w.stan_root.dir)
    ELSE SubSeq(PythonDir, 1, Len(PythonDir) - 1)

\* lines 231-232: makefile_path.exists()
MakefileExists(w, makefile_dir) == makefile_dir \in w.makefiles

\* lines 236-237
SoPathOf(stan_path) == Path(stan_path.dir, stan_path.stem, "_model.so")

\* faulty variant: the comparison of the modification times is reversed
NeedsBuildUnlessOlder(w, force, so_path, stan_path) ==
    ~(~force /\ Exists(w, so_path) /\ w.mtime[so_path] < w.mtime[stan_path])

\* lines 240-243: the artifact is reused only when force is off and it exists
\* with a modification time strictly newer than the source's
NeedsBuild(w, force, so_path, stan_path) ==
    ~(~force /\ Exists(w, so_path) /\ w.mtime[so_path] > w.mtime[stan_path])

\* faulty variant: the working directory is tried before the build directory
MakeTargetCwdFirst(stan_path, makefile_dir, cwd) ==
    IF IsUnder(stan_path.dir, cwd)
    THEN [rule |-> "cwd", path |-> Path(RelativeTo(stan_path.dir, cwd), stan_path.stem, "_model.so")]
    ELSE IF IsUnder(stan_path.dir, makefile_dir)
    THEN [rule |-> "makefile_dir",
          path |-> Path(RelativeTo(stan_path.dir, makefile_dir), stan_path.stem, "_model.so")]
    ELSE [rule |-> "name", path |-> Path(<<>>, stan_path.stem, "_model.so")]

\* lines 249-268: the make target, and the rule that chose it
MakeTarget(stan_path, makefile_dir, cwd) ==
    IF IsUnder(stan_path.dir, makefile_dir)
    THEN [rule |-> "makefile_dir",
          path |-> Path(RelativeTo(stan_path.dir, makefile_dir), stan_path.stem, "_model.so")]
    ELSE IF IsUnder(stan_path.dir, cwd)
    THEN [rule |-> "cwd", path |-> Path(RelativeTo(stan_path.dir, cwd), stan_path.stem, "_model.so")]
    ELSE [rule |-> "name", path |-> Path(<<>>, stan_path.stem, "_model.so")]

\* one subprocess.run(["make", target], cwd=makefile_dir, capture_output=True,
\* text=True), lines 272-282, with the exit status and the decoded output of
\* the process; ran is false when the make executable was not found
BuildRun(target, makefile_dir, ran, returncode, stdout, stderr) ==
    [tool |-> "make", target |-> target, cwd |-> makefile_dir, ran |-> ran,
     returncode |-> returncode, stdout |-> stdout, stderr |-> stderr]

\* the outcome of compile(): a returned CompiledModel, or a raised exception
\* whose message is wrap + head + the parts that follow
CRet(kind, exc, wrap, head, target, wd, stdout, stderr, path) ==
    [kind |-> kind, exc |-> exc, wrap |-> wrap, head |-> head, target |-> target,
     wd |-> wd, stdout |-> stdout, stderr |-> stderr, path |-> path]

CReturn(so_path) == CRet("return", "", "", "", NoPath, <<>>, <<>>, <<>>, so_path)

\* raise StoshError(head + path)
CError(head, path) == CRet("raise", "StoshError", "", head, NoPath, <<>>, <<>>, <<>>, path)

\* what is raised by a statement inside the try block of lines 271-297:
\* FileNotFoundError becomes the "Make command not found" error, and every other
\* exception, StoshError included, becomes StoshError("Compilation error: " + str(e))
InTry(e) ==
    IF e.kind # "raise" THEN e
    ELSE IF e.exc = "FileNotFoundError"
    THEN CError("Make command not found. Ensure GNU make is installed and in PATH.", NoPath)
    ELSE [e EXCEPT !.exc = "StoshError", !.wrap = "Compilation error: "]

\* faulty variant: the captured output is left out of the message
BuildFailedNoOutput(target, makefile_dir, stdout, stderr) ==
    CRet("raise", "StoshError", "", "Compilation failed:", target, makefile_dir, <<>>, <<>>, NoPath)

\* lines 284-286: the message names the command, the working directory and the
\* captured stdout and stderr
BuildFailed(target, makefile_dir, stdout, stderr) ==
    CRet("raise", "StoshError", "", "Compilation failed:", target, makefile_dir,
         stdout, stderr, NoPath)

\* what a shared library file holds: every entry point, all but the optional
\* stosh_get_model_name, a required entry point short, or no library at all
LibKinds == {"full", "noname", "nosym", "bad"}

\* CompiledModel(str(so_path)), lines 30-71: ctypes.CDLL raises OSError for a
\* missing or malformed file, turned into StoshError; a missing required entry
\* point raises AttributeError when its signature is set
Construct(w, so_path) ==
    LET kind == IF Exists(w, so_path) THEN w.kind[so_path] ELSE "bad"
    IN  IF kind = "bad" THEN CError("Failed to load compiled model: ", so_path)
        ELSE IF kind = "nosym"
        THEN CRet("raise", "AttributeError", "", "undefined symbol", NoPath, <<>>, <<>>, <<>>, so_path)
        ELSE CReturn(so_path)

\* texts the build process prints
Outputs == {<<>>, <<233>>}

\* exit statuses of the build process
ExitCodes == {0, 1, 2}

\* the modification time a file written during compile() gets
Now == MaxTime + 1

\* one compile() call as recorded: its arguments, the world before it, the
\* build runs and the library loads it made, and its outcome
CompileRecord(stan_file, force, pre, builds, loads, ret) ==
    [stan_file |-> stan_file, force |-> force, pre |-> pre, builds |-> builds,
     loads |-> loads, ret |-> ret]

NoStanArg == StanArg(TRUE, <<>>, "", "")
NoWorld ==
    [stan_root |-> [set |-> FALSE, dir |-> <<>>], cwd |-> <<>>, makefiles |-> {},
     make |-> FALSE, mtime |-> <<>>, kind |-> <<>>]
NoCompile == CompileRecord(NoStanArg, FALSE, NoWorld, <<>>, <<>>, CRet("none", "", "", "", NoPath, <<>>, <<>>, <<>>, NoPath))

\* faulty variant: the artifact is loaded without looking for it first
ArtifactAssumed(w, so_path) == CRet("none", "", "", "", NoPath, <<>>, <<>>, <<>>, NoPath)

\* lines 288-289: after a build that exited with 0 the artifact must be there
ArtifactMissing(w, so_path) ==
    IF ~Exists(w, so_path)
    THEN CError("Compilation succeeded but output file not found: ", so_path)
    ELSE CRet("none", "", "", "", NoPath, <<>>, <<>>, <<>>, NoPath)

\* faulty variant: the extension is not looked at
SourceErrorNoSuffix(w, stan_path, given) ==
    IF ~Exists(w, stan_path) THEN CError("Stan file does not exist: ", given)
    ELSE CRet("none", "", "", "", NoPath, <<>>, <<>>, <<>>, NoPath)

\* lines 216-220: the source must exist and be a .stan file
SourceError(w, stan_path, given) ==
    IF ~Exists(w, stan_path) THEN CError("Stan file does not exist: ", given)
    ELSE IF stan_path.suffix # ".stan"
    THEN CError("File must have .stan extension: ", given)
    ELSE CRet("none", "", "", "", NoPath, <<>>, <<>>, <<>>, NoPath)

\* faulty variant: the constructor loads the model without data straight away
NewSessionLoaded(w, ret) ==
    /\ lib' = (IF ret.kind = "return" THEN Library(ret.path, w.kind[ret.path] = "full") ELSE NoLib)
    /\ handle' = (IF ret.kind = "return" THEN 1 ELSE None)
    /\ finalized' = FALSE
    /\ nextHandle' = (IF ret.kind = "return" THEN 2 ELSE 1)
    /\ freeCount' = [h \in 1..MaxHandles |-> 0]
    /\ last' = Op("__init__", None,
                  IF ret.kind = "return"
                  THEN <<LoadCall(1, NoData, PyInt(0, 1), <<>>)>> ELSE <<>>,
                  Return("None", <<>>))
    /\ prevOp' = [op |-> "", returned |-> TRUE, prefix |-> "", pre |-> None]

\* the session compile() hands back: the state CompiledModel.__init__ leaves
NewSession(w, ret) ==
    /\ lib' = (IF ret.kind = "return" THEN Library(ret.path, w.kind[ret.path] = "full") ELSE NoLib)
    /\ handle' = None
    /\ finalized' = FALSE
    /\ nextHandle' = 1
    /\ freeCount' = [h \in 1..MaxHandles |-> 0]
    /\ last' = Op("__init__", None, <<>>, Return("None", <<>>))
    /\ prevOp' = [op |-> "", returned |-> TRUE, prefix |-> "", pre |-> None]

\* compile(stan_file, force), called once in a behaviour: the world a build
\* leaves (the artifact newer than its source) is one of the worlds a
\* behaviour starts in
Compile(stan_file, force) ==
    LET w == world
        stan_path == Resolve(w.cwd, stan_file)
        given == Path(stan_file.dir, stan_file.stem, stan_file.suffix)
        makefile_dir == MakefileDir(w)
        so_path == SoPathOf(stan_path)
        make_target == MakeTarget(stan_path, makefile_dir, w.cwd)
        Done(w2, builds, loads, ret) ==
            /\ world' = w2
            /\ cres' = CompileRecord(stan_file, force, w, builds, loads, ret)
            /\ NewSession(w2, ret)
            /\ UNCHANGED peer
    IN
    IF cres # NoCompile THEN FALSE
    ELSE IF SourceError(w, stan_path, given).kind = "raise"
    THEN Done(w, <<>>, <<>>, SourceError(w, stan_path, given))
    ELSE IF ~MakefileExists(w, makefile_dir)
    THEN Done(w, <<>>, <<>>, CError("Makefile not found at: ", Path(makefile_dir, "makefile", "")))
    ELSE IF ~NeedsBuild(w, force, so_path, stan_path)
    THEN Done(w, <<>>, <<so_path>>, Construct(w, so_path))
    ELSE IF ~w.make
    THEN Done(w, <<BuildRun(make_target.path, makefile_dir, FALSE, 0, <<>>, <<>>)>>, <<>>,
              InTry(CRet("raise", "FileNotFoundError", "", "", NoPath, <<>>, <<>>, <<>>, NoPath)))
    ELSE \E returncode \in ExitCodes, printed \in Outputs, complained \in Outputs,
            written \in BOOLEAN, kind \in LibKinds :
         LET stdout == Utf8Decode(Utf8Encode(printed))
             stderr == Utf8Decode(Utf8Encode(complained))
             w2 == IF written
                   THEN [w EXCEPT !.mtime = [f \in DOMAIN w.mtime \cup {so_path} |->
                                                IF f = so_path THEN Now ELSE w.mtime[f]],
                                  !.kind = [f \in DOMAIN w.kind \cup {so_path} |->
                                                IF f = so_path THEN kind ELSE w.kind[f]]]
                   ELSE w
             builds == <<BuildRun(make_target.path, makefile_dir, TRUE,
                                  returncode, stdout, stderr)>>
         IN  /\ ~written => kind = "full"
             /\ IF returncode # 0
                THEN Done(w2, builds, <<>>,
                          InTry(BuildFailed(make_target.path, makefile_dir, stdout, stderr)))
                ELSE IF ArtifactMissing(w2, so_path).kind = "raise"
                THEN Done(w2, builds, <<>>, InTry(ArtifactMissing(w2, so_path)))
                ELSE Done(w2, builds, <<so_path>>, InTry(Construct(w2, so_path)))

\* the files of the model: two sources, a file that is no .stan file, and
\* the artifacts of the sources
SrcInTree == Path(<<"r", "examples">>, "bernoulli", ".stan")
SrcOutside == Path(<<"w", "m">>, "bernoulli", ".stan")
NotStan == Path(<<"w", "m">>, "test", ".txt")
Artifacts == {SoPathOf(SrcInTree), SoPathOf(SrcOutside)}

\* the stan_file arguments compile() is called with
StanArgs ==
    { StanArg(FALSE, <<"..", "examples">>, "bernoulli", ".stan"),
      StanArg(TRUE, <<"w", "m">>, "bernoulli", ".stan"),
      StanArg(FALSE, <<"m">>, "bernoulli", ".stan"),
      StanArg(FALSE, <<>>, "bernoulli", ".stan"),
      StanArg(FALSE, <<>>, "nonexistent", ".stan"),
      StanArg(TRUE, <<"w", "m">>, "test", ".txt") }

\* the worlds compile() starts in: the sources exist with the same
\* modification time, the artifacts are absent (time 0) or have any time up to
\* MaxTime, older than, equal to or newer than the sources'
Worlds ==
    { [stan_root |-> sr, cwd |-> cwd, makefiles |-> mk, make |-> make,
       mtime |-> [f \in {SrcInTree, SrcOutside, NotStan} \cup Artifacts |->
                    IF f \in Artifacts THEN so ELSE MaxTime - 1],
       kind |-> [f \in Artifacts |-> kind]] :
        sr \in {[set |-> FALSE, dir |-> <<>>], [set |-> TRUE, dir |-> <<"w">>]},
        cwd \in {PythonDir, <<"w">>, <<"w", "m">>},
        mk \in SUBSET {<<"r">>, <<"w">>},
        make \in BOOLEAN,
        so \in 0..MaxTime,
        kind \in LibKinds }

\* before the compile() call there is no session
CompileInit ==
    /\ world \in Worlds
    /\ cres = NoCompile
    /\ lib = NoLib
    /\ handle = None
    /\ finalized = FALSE
    /\ nextHandle = 1
    /\ freeCount = [h \in 1..MaxHandles |-> 0]
    /\ last = Op("", None, <<>>, NoRet)
    /\ prevOp = [op |-> "", returned |-> TRUE, prefix |-> "", pre |-> None]
    /\ peer = NoPeer

CompileNext == \E stan_file \in StanArgs, force \in BOOLEAN : Compile(stan_file, force)

CompileSpec == CompileInit /\ [][CompileNext]_vars

\* the path of the library of the session under study
SessionSo == Path(<<"r", "examples">>, "bernoulli", "_model.so")

\* CompiledModel.__init__ on a library that loads
Init ==
    /\ lib \in {Library(SessionSo, n) : n \in BOOLEAN}
    /\ handle = None
    /\ finalized = FALSE
    /\ nextHandle = 1
    /\ freeCount = [h \in 1..MaxHandles |-> 0]
    /\ last = Op("__init__", None, <<>>, Return("None", <<>>))
    /\ prevOp = [op |-> "", returned |-> TRUE, prefix |-> "", pre |-> None]
    /\ world = NoWorld
    /\ cres = NoCompile
    /\ peer = NoPeer

Next ==
    \/ \E data \in DataArgs, seed \in Seeds : LoadData(data, seed)
    \/ \E kwargs \in KwargsArgs : HmcNuts(kwargs)
    \/ Name
    \/ Enter
    \/ Exit
    \/ Del

Spec == Init /\ [][Next]_vars

----------------------------------------------------------------------------
(* Properties of the session *)

\* the native call that ended the last operation, if it made one
FinalCall == last.trace[Len(last.trace)]

\* the last operation ended in a native failure: stosh_load_model returned
\* null, or stosh_run_samplers returned a non-zero status
LoadReturnedNull ==
    /\ last.op = "load_data" /\ last.trace # <<>>
    /\ FinalCall.fn = "stosh_load_model" /\ FinalCall.h = None
RunReturnedNonZero ==
    /\ last.op = "hmc_nuts" /\ last.trace # <<>>
    /\ FinalCall.fn = "stosh_run_samplers" /\ FinalCall.status # 0

\* the session held no handle when the last operation began: it had never
\* loaded, or its last load_data failed, or it had left its with block
HeldNothing ==
    \/ last.pre = None
    \/ prevOp.op \in {"__init__", "__exit__"}
    \/ prevOp.op = "load_data" /\ ~prevOp.returned

\* C1: hmc_nuts on a session that holds no handle (never loaded, last load_data
\* failed, or after __exit__) raises the "No data loaded" StoshError, which is
\* not the "Failed to load data" one, makes no native call and leaves the
\* session without a handle.
C1_SampleWithoutData ==
    (last.op = "hmc_nuts" /\ HeldNothing) =>
        /\ last.ret = NoDataLoaded
        /\ last.ret.prefix # "Failed to load data: "
        /\ last.trace = <<>>
        /\ handle = None

C1_Witness ==
    /\ last.op = "hmc_nuts" /\ last.ret = NoDataLoaded
    /\ prevOp.op = "load_data" /\ prevOp.prefix = "Failed to load data: "
    /\ prevOp.pre # None

\* C2: load_data on a session that is Loaded (in particular right after a
\* load_data that returned) passes the held handle to stosh_free_model exactly
\* once, as the first native call, before any stosh_load_model call it makes.
C2_ReleaseBeforeReload ==
    (last.op = "load_data" /\ (last.pre # None \/ (prevOp.op = "load_data" /\ prevOp.returned))) =>
        /\ last.pre # None
        /\ last.trace # <<>>
        /\ last.trace[1] = FreeCall(last.pre)
        /\ \A i \in 2..Len(last.trace) : last.trace[i].fn = "stosh_load_model"
        /\ Len(last.trace) <= 2
        /\ freeCount[last.pre] = 1

C2_Witness ==
    /\ last.op = "load_data" /\ prevOp.op = "load_data" /\ prevOp.returned
    /\ Len(last.trace) = 2
    /\ last.trace[2].fn = "stosh_load_model" /\ last.trace[2].h # None

\* C3: no handle returned by stosh_load_model reaches stosh_free_model more
\* than once, and nothing else reaches it, whatever the sequence of
\* operations.
C3_NoDoubleFree ==
    \A h \in DOMAIN freeCount :
        /\ freeCount[h] <= 1
        /\ freeCount[h] = 1 => h < nextHandle

C3_Witness ==
    /\ last.op = "__del__" /\ prevOp.op = "__exit__" /\ prevOp.pre # None
    /\ freeCount[1] = 1 /\ freeCount[prevOp.pre] = 1 /\ prevOp.pre # 1

\* C4: teardown (__exit__ or __del__) of a Loaded session calls
\* stosh_free_model exactly once with the held handle and leaves the session
\* without a handle; teardown of an Empty session makes no native call and
\* raises nothing.
C4_TeardownLeavesEmpty ==
    (last.op \in {"__exit__", "__del__"}) =>
        /\ last.ret.kind = "return"
        /\ handle = None
        /\ last.trace = (IF last.pre # None THEN <<FreeCall(last.pre)>> ELSE <<>>)

\* C5: when stosh_run_samplers returns a non-zero status, hmc_nuts raises the
\* "Sampling failed" StoshError, the session keeps the handle it had, the
\* handle is not freed, and an hmc_nuts that follows calls stosh_run_samplers
\* with that handle.
C5_FailedSampleKeepsHandle ==
    /\ RunReturnedNonZero =>
          /\ last.ret.kind = "raise" /\ last.ret.exc = "StoshError"
          /\ last.ret.prefix = "Sampling failed: "
          /\ Len(last.trace) = 1
          /\ FinalCall.h = last.pre
          /\ handle = last.pre /\ handle # None
          /\ freeCount[handle] = 0
    /\ (last.op = "hmc_nuts" /\ prevOp.op = "hmc_nuts" /\ prevOp.prefix = "Sampling failed: ") =>
          /\ Len(last.trace) = 1
          /\ FinalCall.fn = "stosh_run_samplers"
          /\ FinalCall.h = prevOp.pre

C5_Witness ==
    /\ last.op = "hmc_nuts" /\ prevOp.op = "hmc_nuts"
    /\ prevOp.prefix = "Sampling failed: "
    /\ last.ret.kind = "return" /\ handle # None

\* C6: when stosh_load_model returns null, load_data raises the "Failed to
\* load data" StoshError and the session holds no handle, whatever it held
\* before: a handle held before has been freed exactly once, and the
\* hmc_nuts that follows raises "No data loaded".
C6_FailedLoadLeavesEmpty ==
    /\ LoadReturnedNull =>
          /\ last.ret.kind = "raise" /\ last.ret.exc = "StoshError"
          /\ last.ret.prefix = "Failed to load data: "
          /\ handle = None
          /\ last.pre # None =>
                (freeCount[last.pre] = 1 /\ last.trace = <<FreeCall(last.pre), FinalCall>>)
    /\ (last.op = "hmc_nuts" /\ prevOp.op = "load_data"
            /\ prevOp.prefix = "Failed to load data: ") =>
          last.ret = NoDataLoaded

C6_Witness ==
    /\ LoadReturnedNull /\ last.pre # None /\ handle = None
    /\ freeCount[last.pre] = 1

\* C7 as claimed: the message of a native-side failure equals the text the
\* native side wrote into the error buffer, exactly.
C7_MessageEqualsBuffer ==
    (LoadReturnedNull \/ RunReturnedNonZero) =>
        /\ last.ret.kind = "raise"
        /\ last.ret.prefix = ""
        /\ last.ret.text = FinalCall.said

\* C7 as amended: the message of a native-side failure is a fixed prefix,
\* "Failed to load data: " for load_data and "Sampling failed: " for hmc_nuts,
\* followed by the text the native side wrote into the error buffer, verbatim.
C7_MessageEndsWithBuffer ==
    (LoadReturnedNull \/ RunReturnedNonZero) =>
        /\ last.ret.kind = "raise" /\ last.ret.exc = "StoshError"
        /\ last.ret.prefix = (IF last.op = "load_data" THEN "Failed to load data: "
                                                      ELSE "Sampling failed: ")
        /\ last.ret.text = FinalCall.said

C7_Witness ==
    /\ LoadReturnedNull
    /\ last.ret.text = <<233>> /\ FinalCall.said = <<233>>

----------------------------------------------------------------------------
(* Properties of compile() *)

Called == cres # NoCompile

\* the source and the artifact of the call, and the build directory
CalledStan == Resolve(cres.pre.cwd, cres.stan_file)
CalledSo == SoPathOf(CalledStan)
CalledMakefileDir == MakefileDir(cres.pre)

\* the model source is valid: it exists and has the .stan extension
ValidSource == Called /\ Exists(cres.pre, CalledStan) /\ CalledStan.suffix = ".stan"

\* the artifact existed before the call, strictly newer than the source
FreshArtifact ==
    Exists(cres.pre, CalledSo) /\ cres.pre.mtime[CalledSo] > cres.pre.mtime[CalledStan]

HasMakefile == CalledMakefileDir \in cres.pre.makefiles

\* the artifact as it was before the call is a library that loads
ArtifactLoads == cres.pre.kind[CalledSo] \in {"full", "noname"}

\* C8 as claimed: for every valid source with a fresh artifact, compile with
\* force=False runs no build and returns a session built from the existing
\* artifact path.
C8_FreshReturnsSession ==
    (ValidSource /\ FreshArtifact /\ ~cres.force) =>
        /\ cres.builds = <<>>
        /\ cres.ret = CReturn(CalledSo)
        /\ lib.so_path = CalledSo

\* C8 as amended: for every valid source with a fresh artifact, compile with
\* force=False runs no build and leaves the files as they were; when the
\* makefile is in the build directory and the artifact loads as a library, it
\* loads the existing artifact path, once, and returns a session built from it.
C8_FreshRunsNoBuild ==
    (ValidSource /\ FreshArtifact /\ ~cres.force) =>
        /\ cres.builds = <<>>
        /\ world = cres.pre
        /\ (HasMakefile /\ ArtifactLoads) =>
              /\ cres.loads = <<CalledSo>>
              /\ cres.ret = CReturn(CalledSo)
              /\ lib.so_path = CalledSo

C8_Witness ==
    /\ ValidSource /\ FreshArtifact /\ ~cres.force /\ HasMakefile /\ ArtifactLoads
    /\ cres.ret = CReturn(CalledSo) /\ cres.builds = <<>>

\* the make target the precedence of the claim gives: the artifact path
\* relative to the build directory; else, relative to the working directory;
\* else the artifact's base name
ExpectedTarget ==
    IF IsUnder(CalledSo.dir, CalledMakefileDir)
    THEN Path(RelativeTo(CalledSo.dir, CalledMakefileDir), CalledSo.stem, CalledSo.suffix)
    ELSE IF IsUnder(CalledSo.dir, cres.pre.cwd)
    THEN Path(RelativeTo(CalledSo.dir, cres.pre.cwd), CalledSo.stem, CalledSo.suffix)
    ELSE Path(<<>>, CalledSo.stem, CalledSo.suffix)

\* the artifact is missing or not strictly newer than the source, or force is on
MustBuild == ~Exists(cres.pre, CalledSo) \/ ~FreshArtifact \/ cres.force

OneBuild ==
    /\ Len(cres.builds) = 1
    /\ cres.builds[1].tool = "make"
    /\ cres.builds[1].cwd = CalledMakefileDir
    /\ cres.builds[1].target = ExpectedTarget

\* C9 as claimed: for every valid source whose artifact is missing or not
\* strictly newer than the source, or with force=True, compile runs the build
\* exactly once, with the one target the precedence gives.
C9_StaleBuildsOnce ==
    (ValidSource /\ MustBuild) => OneBuild

\* C9 as amended: the same, for every valid source whose build directory
\* holds the makefile.
C9_StaleBuildsOnceWithMakefile ==
    (ValidSource /\ HasMakefile /\ MustBuild) => OneBuild

C9_Witness ==
    /\ ValidSource /\ HasMakefile /\ ~cres.force
    /\ Exists(cres.pre, CalledSo)
    /\ cres.pre.mtime[CalledSo] = cres.pre.mtime[CalledStan]
    /\ OneBuild
    /\ ~IsUnder(CalledSo.dir, CalledMakefileDir) /\ IsUnder(CalledSo.dir, cres.pre.cwd)

\* the build ran and exited with a non-zero status
BuildExitedNonZero ==
    /\ Called /\ cres.builds # <<>>
    /\ cres.builds[1].ran /\ cres.builds[1].returncode # 0

\* C10: for every non-zero build exit status, compile raises the
\* "Compilation failed" StoshError, returns no session and loads no library,
\* and the message holds the captured stdout and stderr, the command and its
\* working directory.
C10_BuildFailureReported ==
    BuildExitedNonZero =>
        /\ cres.ret.kind = "raise" /\ cres.ret.exc = "StoshError"
        /\ cres.ret.head = "Compilation failed:"
        /\ cres.ret.stdout = cres.builds[1].stdout
        /\ cres.ret.stderr = cres.builds[1].stderr
        /\ cres.ret.target = cres.builds[1].target
        /\ cres.ret.wd = cres.builds[1].cwd
        /\ cres.loads = <<>>
        /\ lib = NoLib

C10_Witness ==
    /\ BuildExitedNonZero
    /\ Exists(cres.pre, CalledSo) /\ ~FreshArtifact
    /\ cres.builds[1].stdout = <<233>> /\ cres.ret.stdout = <<233>>
    /\ cres.builds[1].stderr = <<>>

\* the build ran and exited with status 0
BuildExitedZero ==
    /\ Called /\ cres.builds # <<>>
    /\ cres.builds[1].ran /\ cres.builds[1].returncode = 0

\* the "output file not found" StoshError of line 289, as it leaves compile()
IsArtifactMissingAfterBuild(ret) ==
    /\ ret.kind = "raise" /\ ret.exc = "StoshError"
    /\ ret.head = "Compilation succeeded but output file not found: "

\* C11: compile returns a session only if the artifact exists at the expected
\* path when it is loaded, and every library load is of that existing file;
\* when the build exits with 0 and the artifact is still missing, compile
\* raises the "output file not found" StoshError and loads nothing.
C11_ArtifactMustExist ==
    /\ (Called /\ cres.ret.kind = "return") =>
           /\ cres.ret.path = CalledSo
           /\ Exists(world, CalledSo)
           /\ lib # NoLib /\ lib.so_path = CalledSo
    /\ (Called /\ cres.loads # <<>>) =>
           /\ cres.loads = <<CalledSo>>
           /\ Exists(world, CalledSo)
    /\ (BuildExitedZero /\ ~Exists(world, CalledSo)) =>
           /\ IsArtifactMissingAfterBuild(cres.ret)
           /\ cres.ret.path = CalledSo
           /\ cres.loads = <<>>
           /\ lib = NoLib

C11_Witness ==
    /\ BuildExitedZero
    /\ ~Exists(world, CalledSo)
    /\ IsArtifactMissingAfterBuild(cres.ret)
    /\ cres.loads = <<>>

\* the model source of the call does not exist or is no .stan file
InvalidSource == Called /\ ~ValidSource

\* C12: when the model source does not exist or has no .stan extension,
\* compile raises the StoshError of the source check (never the makefile
\* error, whatever the build directory holds), runs no build, loads no
\* library and leaves the files alone.
C12_InvalidSourceFailsFirst ==
    InvalidSource =>
        /\ cres.ret.kind = "raise" /\ cres.ret.exc = "StoshError"
        /\ cres.ret.wrap = ""
        /\ cres.ret.head = (IF ~Exists(cres.pre, CalledStan)
                            THEN "Stan file does not exist: "
                            ELSE "File must have .stan extension: ")
        /\ cres.builds = <<>>
        /\ cres.loads = <<>>
        /\ lib = NoLib
        /\ world = cres.pre

C12_Witness ==
    /\ InvalidSource
    /\ Exists(cres.pre, CalledStan)
    /\ cres.pre.stan_root.set /\ ~HasMakefile
    /\ cres.ret.head = "File must have .stan extension: "
    /\ cres.builds = <<>> /\ cres.loads = <<>>

\* the build directory of the call: the STAN_ROOT override when it is set, the
\* parent of the package directory when it is not
ChosenDir ==
    IF cres.pre.stan_root.set THEN cres.pre.stan_root.dir
    ELSE SubSeq(PythonDir, 1, Len(PythonDir) - 1)

\* the other of the two directories
OtherDir ==
    IF cres.pre.stan_root.set THEN SubSeq(PythonDir, 1, Len(PythonDir) - 1)
    ELSE <<"w">>

\* C13: a build runs in the STAN_ROOT directory when STAN_ROOT is set and in
\* the default directory otherwise; for every valid source, when the makefile
\* is absent from that directory, compile raises the "Makefile not found"
\* StoshError naming that directory, runs no build and loads no library, even
\* when the other directory holds a makefile and the artifact is fresh.
C13_MakefileInChosenDir ==
    /\ (Called /\ cres.builds # <<>>) => cres.builds[1].cwd = ChosenDir
    /\ (ValidSource /\ ChosenDir \notin cres.pre.makefiles) =>
           /\ cres.ret.kind = "raise" /\ cres.ret.exc = "StoshError"
           /\ cres.ret.wrap = ""
           /\ cres.ret.head = "Makefile not found at: "
           /\ cres.ret.path = Path(ChosenDir, "makefile", "")
           /\ cres.builds = <<>>
           /\ cres.loads = <<>>
           /\ lib = NoLib
           /\ world = cres.pre

C13_Witness ==
    /\ ValidSource
    /\ cres.pre.stan_root.set
    /\ ChosenDir \notin cres.pre.makefiles
    /\ OtherDir \in cres.pre.makefiles
    /\ FreshArtifact /\ ArtifactLoads /\ ~cres.force
    /\ cres.ret.head = "Makefile not found at: "
    /\ cres.loads = <<>>

----------------------------------------------------------------------------
(* Properties of the marshalling and of the session, continued *)

\* the number a sequence of decimal digits writes
RECURSIVE DigitsValue(_)
DigitsValue(text) ==
    IF text = <<>> THEN 0
    ELSE 10 * DigitsValue(SubSeq(text, 1, Len(text) - 1)) + (text[Len(text)] - 48)

\* text is the decimal numeral of the natural number n, without leading zeros
IsNumeralOf(text, n) ==
    /\ text # <<>>
    /\ \A i \in 1..Len(text) : text[i] \in 48..57
    /\ Len(text) > 1 => text[1] # 48
    /\ DigitsValue(text) = n

\* text is the canonical text of a parameter value: "true" / "false" for a
\* boolean, the decimal numeral for an integer, the text itself for text
IsCanonicalText(text, value) ==
    IF value.t = "bool"
    THEN text = (IF value.b THEN <<116, 114, 117, 101>> ELSE <<102, 97, 108, 115, 101>>)
    ELSE IF value.t = "int"
    THEN IF value.n < 0
         THEN text # <<>> /\ text[1] = 45 /\ IsNumeralOf(Tail(text), 0 - value.n)
         ELSE IsNumeralOf(text, value.n)
    ELSE text = value.s

\* hmc_nuts reached the native sampler
SamplerCalled == last.op = "hmc_nuts" /\ last.trace # <<>>

\* C14: the arrays hmc_nuts hands to stosh_run_samplers are parallel to the
\* parameter set: count is the number of parameters, keys[i] is the i-th
\* parameter's name, values[i] is the canonical text of its value ("true" /
\* "false" for booleans, the decimal numeral for integers, text unchanged);
\* the empty set is passed as two null arrays with count 0.
C14_ParallelArrays ==
    SamplerCalled =>
        LET args == last.trace[1].args
            kwargs == last.input.kwargs
        IN  /\ last.trace[1].fn = "stosh_run_samplers"
            /\ args.count = Len(kwargs)
            /\ IF kwargs = <<>>
               THEN args.keys.null /\ args.values.null
               ELSE /\ ~args.keys.null /\ ~args.values.null
                    /\ Len(args.keys.items) = Len(kwargs)
                    /\ Len(args.values.items) = Len(kwargs)
                    /\ {args.keys.items[i] : i \in 1..Len(kwargs)}
                          = {Utf8Encode(kwargs[i].k) : i \in 1..Len(kwargs)}
                    /\ \A i \in 1..Len(kwargs) :
                          /\ args.keys.items[i] = Utf8Encode(kwargs[i].k)
                          /\ IsCanonicalText(Utf8Decode(args.values.items[i]), kwargs[i].v)

C14_Witness ==
    /\ SamplerCalled
    /\ Len(last.input.kwargs) = 3
    /\ last.input.kwargs[1].v = BoolV(FALSE)
    /\ last.input.kwargs[2].v = IntV(-5)
    /\ last.trace[1].args.count = 3
    /\ last.trace[1].args.values.items[1] = <<102, 97, 108, 115, 101>>
    /\ last.trace[1].args.values.items[2] = <<45, 53>>

\* compile() tried to load an artifact that does not load: no library at all,
\* or one without a required entry point
LoadAttemptFailed ==
    /\ Called /\ cres.loads # <<>>
    /\ world.kind[CalledSo] \in {"bad", "nosym"}

\* C15 as claimed: when the artifact cannot be loaded, on the reuse path as
\* on the build path, compile raises StoshError, and no exception of another
\* type leaves compile.
C15_LoadFailureIsStoshError ==
    /\ LoadAttemptFailed => (cres.ret.kind = "raise" /\ cres.ret.exc = "StoshError")
    /\ (Called /\ cres.ret.kind = "raise") => cres.ret.exc = "StoshError"

\* the stosh_load_model calls of the last operation
LoadModelCalls == {i \in DOMAIN last.trace : last.trace[i].fn = "stosh_load_model"}

DictUnsupported ==
    StoshError("Dictionary data not yet supported - please provide JSON file path", <<>>)

----------------------------------------------------------------------------
(* compile() followed by the operations of the session it returns *)

\* the worlds with the default build directory in order and a fresh artifact
\* that loads: force=False reuses it, force=True builds
LifecycleWorlds ==
    { w \in Worlds :
        /\ ~w.stan_root.set /\ w.cwd = PythonDir
        /\ w.makefiles = {<<"r">>} /\ w.make
        /\ w.mtime[SoPathOf(SrcInTree)] = MaxTime
        /\ w.kind[SoPathOf(SrcInTree)] = "full" }

LifecycleInit ==
    /\ world \in LifecycleWorlds
    /\ cres = NoCompile
    /\ lib = NoLib
    /\ handle = None
    /\ finalized = FALSE
    /\ nextHandle = 1
    /\ freeCount = [h \in 1..MaxHandles |-> 0]
    /\ last = Op("", None, <<>>, NoRet)
    /\ prevOp = [op |-> "", returned |-> TRUE, prefix |-> "", pre |-> None]
    /\ peer = NoPeer

\* the session operations are enabled only once compile() has returned a
\* session (lib # NoLib); one seed and the empty parameter set are enough here
LifecycleNext ==
    \/ CompileNext
    \/ \E data \in DataArgs : LoadData(data, PyInt(0, 1))
    \/ HmcNuts(<<>>)
    \/ Name
    \/ Enter
    \/ Exit
    \/ Del

LifecycleSpec == LifecycleInit /\ [][LifecycleNext]_vars

\* compile() has just returned a session and no operation has run on it
JustReturned == Called /\ cres.ret.kind = "return" /\ last.op = "__init__"

\* C17: the session compile() returns, built or reused, holds no handle and
\* no stosh_load_model call has been made for it; afterwards the session
\* holds a handle it did not hold before only at the end of a load_data whose
\* stosh_load_model call returned that handle, which is not null.
C17_ReturnedSessionIsEmpty ==
    /\ JustReturned =>
           /\ handle = None
           /\ last.trace = <<>>
           /\ nextHandle = 1
           /\ \A h \in 1..MaxHandles : freeCount[h] = 0
    /\ (Called /\ cres.ret.kind # "return") => (lib = NoLib /\ handle = None)
    /\ (lib # NoLib /\ handle # None /\ last.pre # handle) =>
           /\ last.op = "load_data"
           /\ FinalCall.fn = "stosh_load_model"
           /\ FinalCall.h = handle

\* a session that compile() built was Empty and a load_data made it Loaded
C17_Witness ==
    /\ Called /\ cres.ret.kind = "return" /\ cres.builds # <<>>
    /\ last.op = "load_data" /\ last.pre = None
    /\ prevOp.op = "__init__"
    /\ handle # None /\ FinalCall.h = handle

\* what the last name read left of the session, and what it returned
NameOutcome ==
    last.op = "name" =>
        /\ last.ret.kind = "return"
        /\ handle = last.pre
        /\ (last.pre = None \/ ~lib.hasName) =>
               (last.ret = Return("None", <<>>) /\ last.trace = <<>>)
        /\ last.ret.shape = "str" =>
               /\ last.pre # None /\ lib.hasName
               /\ last.trace = <<Call("stosh_get_model_name", last.pre, 0, NoArgs, <<>>)>>
        /\ last.pre # None => freeCount[last.pre] = 0

\* a step that ends a name read leaves the fields of the session and the
\* native allocations as they were
NameStep ==
    last'.op = "name" =>
        /\ lib' = lib /\ handle' = handle /\ finalized' = finalized
        /\ nextHandle' = nextHandle /\ freeCount' = freeCount

\* C18: name returns a text only when a handle is held and the library has
\* stosh_get_model_name, which is then the one native call; when no handle is
\* held or the entry point is absent it returns None without raising and
\* without a native call; a name read never changes the session.
C18_NameReadsOnly == []NameOutcome /\ [][NameStep]_vars

C18_Witness ==
    /\ last.op = "name"
    /\ last.pre # None /\ ~lib.hasName
    /\ last.ret = Return("None", <<>>) /\ last.trace = <<>>
    /\ handle = last.pre

----------------------------------------------------------------------------
(* Two CompiledModel objects of one library, their operations interleaved *)

\* faulty variant: the handle is kept in one place for all objects (a class
\* attribute), so that the object operated on next sees the same handle
SwitchSharesHandle ==
    /\ peer.id # 0
    /\ peer' = Peer(3 - peer.id, lib, handle, finalized)
    /\ lib' = peer.lib
    /\ handle' = handle
    /\ finalized' = peer.finalized
    /\ last' = Op("switch", handle, <<>>, NoRet)
    /\ prevOp' = Prev
    /\ UNCHANGED <<nextHandle, freeCount, world, cres>>

\* the caller turns to the other object: self is bound to it, and the fields
\* read and written from now on (lines 30-35) are its own
Switch ==
    /\ peer.id # 0
    /\ peer' = Peer(3 - peer.id, lib, handle, finalized)
    /\ lib' = peer.lib
    /\ handle' = peer.handle
    /\ finalized' = peer.finalized
    /\ last' = Op("switch", peer.handle, <<>>, NoRet)
    /\ prevOp' = Prev
    /\ UNCHANGED <<nextHandle, freeCount, world, cres>>

\* two objects constructed from the same library, both Empty
TwoInit ==
    /\ lib \in {Library(SessionSo, n) : n \in BOOLEAN}
    /\ handle = None
    /\ finalized = FALSE
    /\ nextHandle = 1
    /\ freeCount = [h \in 1..MaxHandles |-> 0]
    /\ last = Op("__init__", None, <<>>, Return("None", <<>>))
    /\ prevOp = [op |-> "", returned |-> TRUE, prefix |-> "", pre |-> None]
    /\ world = NoWorld
    /\ cres = NoCompile
    /\ peer = Peer(2, lib, None, FALSE)

\* any operation on the object the caller has turned to, or a turn to the
\* other one; one seed and one parameter set are enough here
TwoNext ==
    \/ \E data \in DataArgs : LoadData(data, PyInt(0, 1))
    \/ HmcNuts(<<>>)
    \/ Name
    \/ Enter
    \/ Exit
    \/ Del
    \/ Switch

TwoSpec == TwoInit /\ [][TwoNext]_vars

\* the handles stosh_load_model has returned and stosh_free_model has not seen
LiveHandles == {h \in 1..MaxHandles : h < nextHandle /\ freeCount[h] = 0}

\* the handle an object with these fields holds live: none once it is Empty
\* or destroyed
HeldLive(h, f) == IF h # None /\ ~f THEN {h} ELSE {}

\* the two objects never hold the same handle
HandlesDisjoint == (handle # None /\ peer.handle # None) => handle # peer.handle

\* the native calls of the last operation were given the handle of the object
\* operated on, or returned it a new one: never the handle of the other object
OwnHandleOnly ==
    \A i \in DOMAIN last.trace :
        /\ last.trace[i].fn # "stosh_load_model" => last.trace[i].h = last.pre
        /\ last.trace[i].h # None => last.trace[i].h # peer.handle

\* each object's handle is live until that object frees it, every handle is
\* freed at most once, and the live handles are those the two objects hold
EachSessionSound ==
    /\ \A h \in 1..MaxHandles : freeCount[h] <= 1
    /\ handle # None => freeCount[handle] = (IF finalized THEN 1 ELSE 0)
    /\ peer.handle # None => freeCount[peer.handle] = (IF peer.finalized THEN 1 ELSE 0)
    /\ LiveHandles = HeldLive(handle, finalized) \cup HeldLive(peer.handle, peer.finalized)

\* an operation on one object leaves the fields of the other as they were
OtherUntouched == last'.op # "switch" => peer' = peer

\* C19: with two objects of one library whose operations interleave in any
\* order, the objects never hold the same handle, an operation passes only
\* its own object's handle to the native side and leaves the other object's
\* fields alone, and for each object the handle it holds is live, no handle
\* is freed twice and no handle is live without an object holding it.
C19_SessionsIsolated ==
    /\ [](HandlesDisjoint /\ OwnHandleOnly /\ EachSessionSound)
    /\ [][OtherUntouched]_vars

\* one object has just released its handle while the other, loaded before it,
\* still holds its own live
C19_Witness ==
    /\ peer.id # 0
    /\ last.op = "__exit__" /\ last.pre # None
    /\ freeCount[last.pre] = 1
    /\ peer.handle # None /\ ~peer.finalized
    /\ peer.handle < last.pre
    /\ freeCount[peer.handle] = 0

\* C20: in every state of one session reached by load_data, hmc_nuts, name,
\* __enter__ and __exit__ calls (the finalizer has not run), at most one
\* handle is live, and one is live exactly when the session stores a handle,
\* which is then that live handle: a replacing or failing load_data and an
\* __exit__ leave no handle live that the session does not store.
C20_AtMostOneLive ==
    (lib # NoLib /\ ~finalized /\ peer = NoPeer) =>
        /\ Cardinality(LiveHandles) <= 1
        /\ (Cardinality(LiveHandles) = 1) <=> (handle # None /\ handle \in LiveHandles)
        /\ handle # None => LiveHandles = {handle}
        /\ handle = None => LiveHandles = {}

\* a load_data that replaced a handle has failed, and nothing is live
C20_Witness ==
    /\ ~finalized /\ peer = NoPeer
    /\ last.op = "load_data" /\ last.pre # None
    /\ LoadReturnedNull
    /\ handle = None /\ LiveHandles = {}
    /\ freeCount[last.pre] = 1

----------------------------------------------------------------------------
(* __del__ called as a method: m.__del__() returns and m stays in use *)

\* CompiledModel.__del__ invoked explicitly, lines 184-187: the same body as
\* the finalizer runs, and the object lives on with its fields as they are
DelCall ==
    /\ ~finalized
    /\ lib # NoLib
    /\ IF handle # None
       THEN /\ freeCount[handle] < MaxDelCalls
            /\ freeCount' = Freed(freeCount, handle)
            /\ last' = Op("__del__", handle, <<FreeCall(handle)>>, Return("None", <<>>))
       ELSE /\ last' = Op("__del__", handle, <<>>, Return("None", <<>>))
            /\ UNCHANGED freeCount
    /\ prevOp' = Prev
    /\ UNCHANGED otherVars
    /\ UNCHANGED <<lib, handle, finalized, nextHandle>>

\* the operations of one session, m.__del__() among them; one seed and the
\* empty parameter set are enough here
ExplicitDelNext ==
    \/ \E data \in DataArgs : LoadData(data, PyInt(0, 1))
    \/ HmcNuts(<<>>)
    \/ Name
    \/ Enter
    \/ Exit
    \/ Del
    \/ DelCall

ExplicitDelSpec == Init /\ [][ExplicitDelNext]_vars

\* the native calls that are given a handle to use or to release
UsesHandle(call) ==
    call.fn \in {"stosh_run_samplers", "stosh_get_model_name", "stosh_free_model"}

\* C21 as claimed: no stosh_run_samplers, stosh_get_model_name or
\* stosh_free_model call is given a handle that stosh_free_model has seen
\* before: a handle that is sampled or named has never been freed, and a
\* handle that is freed is freed for the first time, also after a release by
\* load_data, __exit__ or __del__.
C21_NoUseAfterFree ==
    \A i \in DOMAIN last.trace :
        UsesHandle(last.trace[i]) =>
            /\ last.trace[i].h # None
            /\ freeCount[last.trace[i].h] =
                  (IF last.trace[i].fn = "stosh_free_model" THEN 1 ELSE 0)

----------------------------------------------------------------------------
(* Properties of the seed *)

\* two Python ints, held as base-65536 digit pairs, are congruent modulo 2^32
CongruentSeeds(a, b) == a.lo = b.lo /\ (a.hi - b.hi) % HalfWord = 0

\* a digit pair that is a 32-bit unsigned value
IsUInt32(a) == a.hi \in 0..(HalfWord - 1) /\ a.lo \in 0..(HalfWord - 1)

\* C22: whenever load_data is called with a path or None, whatever the seed,
\* stosh_load_model is called, and the seed it is given is the 32-bit
\* unsigned value congruent to the caller's seed modulo 2^32; the outcome is
\* the return or the native load failure, never a complaint about the seed;
\* so the seeds 1 and 2^32 + 1 give the same call, and -1 gives 2^32 - 1.
C22_SeedReducedMod32 ==
    (last.op = "load_data" /\ last.input.data.t # "dict") =>
        LET seed == last.input.seed
            passed == FinalCall.args.seed
        IN  /\ last.trace # <<>>
            /\ FinalCall.fn = "stosh_load_model"
            /\ IsUInt32(passed)
            /\ CongruentSeeds(passed, seed)
            /\ \A other \in Seeds :
                  CongruentSeeds(other, seed) =>
                      FinalCall = LoadCall(FinalCall.h, last.input.data, other, FinalCall.said)
            /\ seed = PyInt(-1, HalfWord - 1) => passed = PyInt(HalfWord - 1, HalfWord - 1)
            /\ last.ret.kind = "raise" => (FinalCall.h = None /\ last.ret.prefix = "Failed to load data: ")
            /\ last.ret.kind = "return" => handle = FinalCall.h

\* a seed of 2^32 + 1 was accepted and reached the native side as 1
C22_Witness ==
    /\ last.op = "load_data" /\ last.input.data.t = "str"
    /\ last.input.seed = PyInt(HalfWord, 1)
    /\ FinalCall.fn = "stosh_load_model"
    /\ FinalCall.args.seed = PyInt(0, 1)
    /\ last.ret.kind = "return" /\ handle # None

====
